---- MODULE Spec2Model ----
(***************************************************************************)
(* Model of poker_sim.py: the Card flyweight pool (Card.__new__), the      *)
(* five-card hand scorer (value_hand), the best-hand selector              *)
(* (best_five_card_hand) and the winner resolver (winning_hands).          *)
(***************************************************************************)
EXTENDS Integers, Sequences, FiniteSets, TLC

VARIABLES
    fn,          \* the function of the call under observation
    hand,        \* value_hand's argument
    card_list,   \* best_five_card_hand's argument
    hole_cards,  \* winning_hands' first argument: one list of cards per player
    community,   \* winning_hands' second argument
    ret,         \* outcome of the call: none yet, a returned value, or an error
    card_pool,   \* Card.__new__.card_pool: (suit, rank) -> Card object
    heap,        \* the Card objects allocated so far, by identity
    pc,          \* each caller's position in Card.__new__
    arg,         \* each caller's (suit, rank) arguments
    card,        \* each caller's local variable card
    made,        \* the cards handed back to callers, with what was asked for
    calls        \* number of Card(...) calls started

callVars == <<fn, hand, card_list, hole_cards, community, ret>>
cardVars == <<card_pool, heap, pc, arg, card, made, calls>>
vars == <<callVars, cardVars>>

(***************************************************************************)
(* Suit and Rank enumerations, by their enum values.                       *)
(***************************************************************************)
SPADES == 0
CLUBS == 1
HEARTS == 2
DIAMONDS == 3
Suit == {SPADES, CLUBS, HEARTS, DIAMONDS}

TWO == 2
THREE == 3
FOUR == 4
FIVE == 5
SIX == 6
SEVEN == 7
EIGHT == 8
NINE == 9
TEN == 10
JACK == 11
QUEEN == 12
KING == 13
ACE == 14
Rank == {TWO, THREE, FOUR, FIVE, SIX, SEVEN, EIGHT, NINE, TEN, JACK, QUEEN, KING, ACE}

\* A card value: the pair of attributes Card.__eq__ and Card.__lt__ read.
CardOf(s, r) == [suit |-> s, rank |-> r]

\* Card.__lt__: ordering by rank only.
CardLt(a, b) == a.rank < b.rank

(***************************************************************************)
(* Card.__new__ and its pool, called by NumThreads callers whose steps     *)
(* interleave statement by statement.                                      *)
(***************************************************************************)
NumThreads == 2
MaxCalls == 3
NumKeys == 3

Threads == 1..NumThreads

\* An attribute not assigned yet.
NoAttr == -1

\* The arguments callers construct cards with.
CardArgs ==
    <<<<SPADES, ACE>>, <<HEARTS, ACE>>, <<SPADES, TWO>>, <<DIAMONDS, KING>>,
      <<CLUBS, TWO>>, <<HEARTS, TEN>>, <<CLUBS, SEVEN>>>>
ValidArgs == {CardArgs[i] : i \in 1..NumKeys}
\* Arguments that are no member of Suit or of Rank.
InvalidArgs == {<<4, ACE>>, <<SPADES, 15>>}

\* A pool keyed by rank alone.
PoolKeyNoSuit(suit, rank) == <<SPADES, rank>>
\* The key (suit, rank) of the pool.
PoolKey(suit, rank) == <<suit, rank>>

\* Card.suit and Card.rank of the object with identity o.
SuitOf(o) == heap[o]._suit
RankOf(o) == heap[o]._rank

\* Card.__eq__ on two objects: same suit and same rank.
CardEq(a, b) == SuitOf(a) = SuitOf(b) /\ RankOf(a) = RankOf(b)

CardInit ==
    /\ card_pool = <<>>
    /\ heap = <<>>
    /\ pc = [t \in Threads |-> "idle"]
    /\ arg = [t \in Threads |-> <<NoAttr, NoAttr>>]
    /\ card = [t \in Threads |-> 0]
    /\ made = {}
    /\ calls = 0

\* Card(suit, rank) is called.
CardNew(t, a) ==
    /\ pc[t] = "idle" /\ calls < MaxCalls
    /\ calls' = calls + 1
    /\ arg' = [arg EXCEPT ![t] = a]
    /\ card' = [card EXCEPT ![t] = 0]
    /\ pc' = [pc EXCEPT ![t] = "check"]
    /\ UNCHANGED <<card_pool, heap, made, callVars>>

\* if (suit, rank) in Card.__new__.card_pool
PoolCheck(t) ==
    /\ pc[t] = "check"
    /\ pc' = [pc EXCEPT ![t] =
                IF PoolKey(arg[t][1], arg[t][2]) \in DOMAIN card_pool
                THEN "hit" ELSE "alloc"]
    /\ UNCHANGED <<card_pool, heap, arg, card, made, calls, callVars>>

\* return Card.__new__.card_pool[(suit, rank)]
PoolHit(t) ==
    /\ pc[t] = "hit"
    /\ made' = made \cup {[suit |-> arg[t][1], rank |-> arg[t][2],
                           obj |-> card_pool[PoolKey(arg[t][1], arg[t][2])]]}
    /\ pc' = [pc EXCEPT ![t] = "idle"]
    /\ UNCHANGED <<card_pool, heap, arg, card, calls, callVars>>

\* card = super().__new__(cls)
Alloc(t) ==
    /\ pc[t] = "alloc"
    /\ heap' = Append(heap, [_suit |-> NoAttr, _rank |-> NoAttr])
    /\ card' = [card EXCEPT ![t] = Len(heap) + 1]
    /\ pc' = [pc EXCEPT ![t] = "set_suit"]
    /\ UNCHANGED <<card_pool, arg, made, calls, callVars>>

\* card._suit = suit
SetSuit(t) ==
    /\ pc[t] = "set_suit"
    /\ heap' = [heap EXCEPT ![card[t]]._suit = arg[t][1]]
    /\ pc' = [pc EXCEPT ![t] = "set_rank"]
    /\ UNCHANGED <<card_pool, arg, card, made, calls, callVars>>

\* card._rank = rank
SetRank(t) ==
    /\ pc[t] = "set_rank"
    /\ heap' = [heap EXCEPT ![card[t]]._rank = arg[t][2]]
    /\ pc' = [pc EXCEPT ![t] = "store"]
    /\ UNCHANGED <<card_pool, arg, card, made, calls, callVars>>

\* Card.__new__.card_pool[(suit, rank)] = card
PoolStore(t) ==
    /\ pc[t] = "store"
    /\ LET key == PoolKey(arg[t][1], arg[t][2])
       IN  card_pool' = [k \in DOMAIN card_pool \cup {key} |->
                            IF k = key THEN card[t] ELSE card_pool[k]]
    /\ pc' = [pc EXCEPT ![t] = "return"]
    /\ UNCHANGED <<heap, arg, card, made, calls, callVars>>

\* return card
Return(t) ==
    /\ pc[t] = "return"
    /\ made' = made \cup {[suit |-> arg[t][1], rank |-> arg[t][2], obj |-> card[t]]}
    /\ pc' = [pc EXCEPT ![t] = "idle"]
    /\ UNCHANGED <<card_pool, heap, arg, card, calls, callVars>>

CardStep(t) ==
    \/ PoolCheck(t) \/ PoolHit(t) \/ Alloc(t) \/ SetSuit(t) \/ SetRank(t)
    \/ PoolStore(t) \/ Return(t)

(***************************************************************************)
(* value_hand                                                              *)
(***************************************************************************)
PAIR == 1000000
TWO_PAIR == 2000000
SET == 3000000
STRAIGHT == 4000000
FLUSH == 5000000
FULL == 6000000
FOUR_KIND == 7000000
STRAIGHT_FLUSH == 8000000
ROYAL == 9000000
K == 14

Max2(a, b) == IF a >= b THEN a ELSE b
Min2(a, b) == IF a <= b THEN a ELSE b
SetMax(S) == CHOOSE x \in S : \A y \in S : y <= x
SetMin(S) == CHOOSE x \in S : \A y \in S : x <= y

RECURSIVE Pow(_, _)
Pow(b, e) == IF e = 0 THEN 1 ELSE b * Pow(b, e - 1)

\* Insertion of a card into a list sorted by Card.__lt__, after every card
\* that is not greater (so that cards of equal rank keep their order).
RECURSIVE InsertCard(_, _)
InsertCard(x, s) ==
    IF s = <<>> THEN <<x>>
    ELSE IF CardLt(x, Head(s)) THEN <<x>> \o s
    ELSE <<Head(s)>> \o InsertCard(x, Tail(s))

\* No sorting: the hand as passed.
unsorted(h) == h

\* sorted(hand): a stable sort that uses only Card.__lt__.
RECURSIVE sorted(_)
sorted(h) ==
    IF h = <<>> THEN <<>>
    ELSE InsertCard(h[Len(h)], sorted(SubSeq(h, 1, Len(h) - 1)))

\* Counter(card.rank for card in hand): the distinct ranks in order of first
\* occurrence, each with its number of occurrences.
RECURSIVE CounterItems(_)
CounterItems(h) ==
    IF h = <<>> THEN <<>>
    ELSE LET before == CounterItems(SubSeq(h, 1, Len(h) - 1))
             r == h[Len(h)].rank
         IN  IF \E i \in 1..Len(before) : before[i].rank = r
             THEN [i \in 1..Len(before) |->
                     IF before[i].rank = r
                     THEN [rank |-> r, count |-> before[i].count + 1]
                     ELSE before[i]]
             ELSE Append(before, [rank |-> r, count |-> 1])

\* Insertion of a Counter item into a list sorted by count, largest first,
\* after every item whose count is not smaller.
RECURSIVE InsertCount(_, _)
InsertCount(x, s) ==
    IF s = <<>> THEN <<x>>
    ELSE IF x.count > Head(s).count THEN <<x>> \o s
    ELSE <<Head(s)>> \o InsertCount(x, Tail(s))

RECURSIVE SortedByCount(_)
SortedByCount(s) ==
    IF s = <<>> THEN <<>>
    ELSE InsertCount(s[Len(s)], SortedByCount(SubSeq(s, 1, Len(s) - 1)))

\* Counter.most_common(): the items sorted by count, largest first, items of
\* equal count in their order of first occurrence.
most_common(h) == SortedByCount(CounterItems(h))

suits_of(h) == {h[i].suit : i \in 1..Len(h)}
ranks_of(h) == {h[i].rank : i \in 1..Len(h)}

\* {Rank.TWO, Rank.ACE} < ranks_in_hand: proper subset.
HasTwoAndAce(ranks) == {TWO, ACE} \subseteq ranks /\ {TWO, ACE} # ranks

\* A straight test without the ace-low case.
is_straight_ace_high(h) ==
    Cardinality(ranks_of(h)) = 5 /\ h[Len(h)].rank - h[1].rank = 4

\* is_straight(), on the sorted hand h.
is_straight(h) ==
    LET ranks_in_hand == ranks_of(h)
        max_rank_value == IF HasTwoAndAce(ranks_in_hand) THEN h[Len(h) - 1].rank
                          ELSE h[Len(h)].rank
        min_rank_value == IF HasTwoAndAce(ranks_in_hand) THEN TWO - 1
                          ELSE h[1].rank
    IN  IF Cardinality(ranks_in_hand) < 5 THEN FALSE
        ELSE Cardinality(ranks_in_hand) = 5 /\ max_rank_value - min_rank_value = 4

\* The weights applied from the wrong end: the lowest card weighs most.
RECURSIVE HighSumLowFirst(_, _)
HighSumLowFirst(h, n) ==
    IF n = 0 THEN 0
    ELSE Pow(14, Len(h) - n) * h[n].rank + HighSumLowFirst(h, n - 1)

\* sum(14**i * hand[i].rank.value for i in range(len(hand))), h sorted;
\* position i of the source is position i + 1 here.
RECURSIVE HighSum(_, _)
HighSum(h, n) ==
    IF n = 0 THEN 0
    ELSE Pow(14, n - 1) * h[n].rank + HighSum(h, n - 1)

\* Two pair and three of a kind taking the ranks as most_common lists them,
\* without max and min.
PairScoreAsMet(h) ==
    LET rank_counts == most_common(h)
        c1 == rank_counts[1].count
        c2 == rank_counts[2].count
        r1 == rank_counts[1].rank
        r2 == rank_counts[2].rank
    IN  IF c1 = 3 /\ c2 = 2 THEN FULL + K * r1 + r2
        ELSE IF c1 = 2 /\ c2 = 2 THEN
            TWO_PAIR + K * K * r1 + K * r2 + rank_counts[3].rank
        ELSE IF c1 = 3 /\ c2 = 1 THEN
            SET + K * K * r1 + K * r2 + rank_counts[3].rank
        ELSE IF c1 = 2 /\ c2 = 1 THEN
            LET rest == ranks_of(h) \ {r1}
                k0 == SetMax(rest)
                k1 == SetMax(rest \ {k0})
                k2 == SetMax(rest \ {k0, k1})
            IN  PAIR + K * K * K * r1 + K * K * k0 + K * k1 + k2
        ELSE IF c1 = 4 /\ c2 = 1 THEN FOUR_KIND + K * r1 + r2
        ELSE 0

\* The score of the rank-multiplicity branches (0 when none applies).
PairScore(h) ==
    LET rank_counts == most_common(h)
        c1 == rank_counts[1].count
        c2 == rank_counts[2].count
        r1 == rank_counts[1].rank
        r2 == rank_counts[2].rank
    IN  IF c1 = 3 /\ c2 = 2 THEN FULL + K * r1 + r2
        ELSE IF c1 = 2 /\ c2 = 2 THEN
            TWO_PAIR + K * K * Max2(r1, r2) + K * Min2(r1, r2) + rank_counts[3].rank
        ELSE IF c1 = 3 /\ c2 = 1 THEN
            SET + K * K * r1 + K * Max2(r2, rank_counts[3].rank)
                + Min2(r2, rank_counts[3].rank)
        ELSE IF c1 = 2 /\ c2 = 1 THEN
            LET rest == ranks_of(h) \ {r1}
                k0 == SetMax(rest)
                k1 == SetMax(rest \ {k0})
                k2 == SetMax(rest \ {k0, k1})
            IN  PAIR + K * K * K * r1 + K * K * k0 + K * k1 + k2
        ELSE IF c1 = 4 /\ c2 = 1 THEN FOUR_KIND + K * r1 + r2
        ELSE 0

\* The ace always high.
StraightHighAce(ranks) == SetMax(ranks)
\* The payload of a straight: FIVE for the wheel, else the highest rank.
StraightHigh(ranks) == IF HasTwoAndAce(ranks) THEN FIVE ELSE SetMax(ranks)

\* The body of value_hand after the length assertion.
Score(hnd) ==
    LET h == sorted(hnd)
        suits_in_hand == suits_of(h)
        ranks_in_hand == ranks_of(h)
        score == PairScore(h)
    IN  IF Cardinality(suits_in_hand) = 1 THEN
            IF is_straight(h) THEN
                IF SetMin(ranks_in_hand) = TEN THEN ROYAL
                ELSE STRAIGHT_FLUSH + StraightHigh(ranks_in_hand)
            ELSE Max2(FLUSH, score) + HighSum(h, Len(h))
        ELSE IF is_straight(h) THEN STRAIGHT + StraightHigh(ranks_in_hand)
        ELSE IF score < PAIR THEN HighSum(h, Len(h))
        ELSE score

NoCall == [kind |-> "none"]
Raised(e) == [kind |-> "error", error |-> e]
Returned(v) == [kind |-> "value", value |-> v]

\* The assertion demanding at least five cards instead of exactly five.
value_hand_at_least(hnd) ==
    IF Len(hnd) < 5 THEN Raised("AssertionError") ELSE Returned(Score(hnd))

\* value_hand(hand): an AssertionError unless the hand has five cards.
value_hand(hnd) ==
    IF Len(hnd) # 5 THEN Raised("AssertionError") ELSE Returned(Score(hnd))

(***************************************************************************)
(* best_five_card_hand and winning_hands                                   *)
(***************************************************************************)
\* itertools.combinations(range(lo, n + 1), r), as a list in the library's
\* (lexicographic) order.
RECURSIVE CombosFrom(_, _, _)
CombosFrom(lo, n, r) ==
    IF r = 0 THEN << <<>> >>
    ELSE IF lo > n - r + 1 THEN <<>>
    ELSE LET with == CombosFrom(lo + 1, n, r - 1)
         IN  [i \in 1..Len(with) |-> <<lo>> \o with[i]] \o CombosFrom(lo + 1, n, r)

Pick(cards, idx) == [i \in 1..Len(idx) |-> cards[idx[i]]]

\* combinations(card_list, r)
combinations(cards, r) ==
    LET idx == CombosFrom(1, Len(cards), r)
    IN  [i \in 1..Len(idx) |-> Pick(cards, idx[i])]

\* The generator's items: {'five_card_hand': c, 'value': value_hand(c)}.
Valued(c) == [five_card_hand |-> c, value |-> value_hand(c).value]

\* min in place of max.
RECURSIVE MinByValue(_, _)
MinByValue(cs, n) ==
    IF n = 1 THEN Valued(cs[1])
    ELSE LET best == MinByValue(cs, n - 1)
             cur == Valued(cs[n])
         IN  IF cur.value < best.value THEN cur ELSE best

\* max(items, key=value): the first item of the largest value.
RECURSIVE MaxByValue(_, _)
MaxByValue(cs, n) ==
    IF n = 1 THEN Valued(cs[1])
    ELSE LET best == MaxByValue(cs, n - 1)
             cur == Valued(cs[n])
         IN  IF cur.value > best.value THEN cur ELSE best

\* best_five_card_hand(card_list): max() of an empty generator is a ValueError.
best_five_card_hand(cards) ==
    LET cs == combinations(cards, 5)
    IN  IF Len(cs) = 0 THEN Raised("ValueError")
        ELSE Returned(MaxByValue(cs, Len(cs)))

\* Insertion of a player's entry into a list sorted by value, largest first,
\* after every entry whose value is not smaller.
RECURSIVE InsertEntry(_, _)
InsertEntry(x, s) ==
    IF s = <<>> THEN <<x>>
    ELSE IF x.value > Head(s).value THEN <<x>> \o s
    ELSE <<Head(s)>> \o InsertEntry(x, Tail(s))

\* best_hands.sort(key=value, reverse=True): stable.
RECURSIVE SortedByValue(_)
SortedByValue(s) ==
    IF s = <<>> THEN <<>>
    ELSE InsertEntry(s[Len(s)], SortedByValue(SubSeq(s, 1, Len(s) - 1)))

\* Only the first entry, whoever else ties with it.
SelectFirst(s, top) == <<Head(s)>>

\* [hand for hand in best_hands if hand['value'] == best_hands[0]['value']]
RECURSIVE SelectTop(_, _)
SelectTop(s, top) ==
    IF s = <<>> THEN <<>>
    ELSE IF Head(s).value = top THEN <<Head(s)>> \o SelectTop(Tail(s), top)
    ELSE SelectTop(Tail(s), top)

\* winning_hands(hole_cards, community)
winning_hands(holes, com) ==
    LET best == [p \in 1..Len(holes) |-> best_five_card_hand(holes[p] \o com)]
    IN  IF \E p \in 1..Len(holes) : best[p].kind = "error" THEN Raised("ValueError")
        ELSE LET best_hands ==
                     SortedByValue([p \in 1..Len(holes) |->
                         [hole_cards |-> holes[p],
                          five_card_hand |-> best[p].value.five_card_hand,
                          value |-> best[p].value.value]])
             IN  IF best_hands = <<>> THEN Returned(<<>>)
                 ELSE Returned(SelectTop(best_hands, best_hands[1].value))

(***************************************************************************)
(* Inputs of the calls                                                     *)
(***************************************************************************)
DeckSize == 20
MaxHandLen == 6
ShortDeckSize == 7
MaxPlayers == 2

RankSeq == <<TWO, THREE, FOUR, FIVE, SIX, SEVEN, EIGHT, NINE, TEN, JACK, QUEEN, KING, ACE>>

\* The deck of play_game, spades first; hands are dealt from its first
\* DeckSize cards.
DeckOrder ==
    [i \in 1..13 |-> CardOf(SPADES, RankSeq[i])]
    \o <<CardOf(HEARTS, TWO), CardOf(CLUBS, TWO), CardOf(DIAMONDS, TWO),
         CardOf(HEARTS, ACE), CardOf(HEARTS, SIX), CardOf(CLUBS, SIX),
         CardOf(HEARTS, SEVEN), CardOf(HEARTS, THREE), CardOf(CLUBS, ACE),
         CardOf(DIAMONDS, SEVEN), CardOf(HEARTS, KING), CardOf(DIAMONDS, ACE)>>
    \o [i \in 1..11 |-> CardOf(CLUBS, RankSeq[i + 1])]

SeqRange(s) == {s[i] : i \in 1..Len(s)}

TrialDeck == SubSeq(DeckOrder, 1, DeckSize)
ShortDeck == SubSeq(DeckOrder, 10, 9 + ShortDeckSize)

\* The hands of ValueHandTestCase.
TestHands == {
    <<CardOf(SPADES, ACE), CardOf(DIAMONDS, NINE), CardOf(CLUBS, TEN),
      CardOf(CLUBS, EIGHT), CardOf(HEARTS, QUEEN)>>,
    <<CardOf(HEARTS, KING), CardOf(HEARTS, THREE), CardOf(HEARTS, TWO),
      CardOf(DIAMONDS, TEN), CardOf(CLUBS, TEN)>>,
    <<CardOf(SPADES, JACK), CardOf(HEARTS, JACK), CardOf(DIAMONDS, EIGHT),
      CardOf(HEARTS, FOUR), CardOf(CLUBS, FOUR)>>,
    <<CardOf(SPADES, JACK), CardOf(SPADES, FOUR), CardOf(DIAMONDS, EIGHT),
      CardOf(HEARTS, FOUR), CardOf(CLUBS, FOUR)>>,
    <<CardOf(CLUBS, EIGHT), CardOf(DIAMONDS, NINE), CardOf(HEARTS, TEN),
      CardOf(HEARTS, SEVEN), CardOf(HEARTS, SIX)>>,
    <<CardOf(HEARTS, EIGHT), CardOf(HEARTS, NINE), CardOf(HEARTS, JACK),
      CardOf(HEARTS, SEVEN), CardOf(HEARTS, SIX)>>,
    <<CardOf(HEARTS, SIX), CardOf(SPADES, SIX), CardOf(CLUBS, SIX),
      CardOf(HEARTS, SEVEN), CardOf(DIAMONDS, SEVEN)>>,
    <<CardOf(CLUBS, TWO), CardOf(DIAMONDS, TWO), CardOf(SPADES, TWO),
      CardOf(HEARTS, TWO), CardOf(HEARTS, SIX)>>,
    <<CardOf(HEARTS, EIGHT), CardOf(HEARTS, NINE), CardOf(HEARTS, JACK),
      CardOf(HEARTS, TEN), CardOf(HEARTS, QUEEN)>>,
    <<CardOf(HEARTS, TEN), CardOf(HEARTS, KING), CardOf(HEARTS, JACK),
      CardOf(HEARTS, QUEEN), CardOf(HEARTS, ACE)>>,
    <<CardOf(SPADES, ACE), CardOf(HEARTS, FIVE), CardOf(HEARTS, FOUR),
      CardOf(HEARTS, TWO), CardOf(HEARTS, THREE)>>,
    <<CardOf(HEARTS, ACE), CardOf(HEARTS, FIVE), CardOf(HEARTS, FOUR),
      CardOf(HEARTS, TWO), CardOf(HEARTS, THREE)>> }

FiveCardHands == SeqRange(combinations(TrialDeck, 5)) \cup TestHands

InputHands ==
    FiveCardHands \cup UNION {SeqRange(combinations(ShortDeck, n)) : n \in 0..MaxHandLen}

\* The cards of BestHandTestCase: test_best_five_card_hand (com, then
\* hole_cards) and test_best_hand_ties (com, then the two players' cards).
BestDeck ==
    <<CardOf(SPADES, ACE), CardOf(SPADES, KING), CardOf(SPADES, EIGHT),
      CardOf(HEARTS, KING), CardOf(DIAMONDS, NINE), CardOf(HEARTS, ACE),
      CardOf(HEARTS, EIGHT), CardOf(CLUBS, EIGHT), CardOf(DIAMONDS, SEVEN)>>
TiesDeck ==
    <<CardOf(SPADES, ACE), CardOf(SPADES, KING), CardOf(SPADES, QUEEN),
      CardOf(SPADES, JACK), CardOf(SPADES, TEN), CardOf(SPADES, TWO),
      CardOf(HEARTS, THREE), CardOf(HEARTS, TWO), CardOf(DIAMONDS, FOUR)>>
GameDecks == {BestDeck, TiesDeck}

\* Community cards: the five of play_game, and fewer, down to where two hole
\* cards no longer make five.
CommunitySizes == 2..5

InputCardLists ==
    UNION {SeqRange(combinations(d, n)) : d \in GameDecks, n \in 0..Len(BestDeck)}

Without(d, cards) == SelectSeq(d, LAMBDA c : c \notin SeqRange(cards))

\* The lists of n players' hole cards (two cards each, as play_game deals)
\* that can be dealt from the cards of d.
RECURSIVE HoleDeals(_, _)
HoleDeals(d, n) ==
    IF n = 0 THEN { <<>> }
    ELSE UNION { { <<h>> \o rest : rest \in HoleDeals(Without(d, h), n - 1) } :
                 h \in SeqRange(combinations(d, 2)) }

CallInit ==
    /\ ret = NoCall
    /\ \/ /\ fn = "value_hand"
          /\ hand \in InputHands
          /\ card_list = <<>> /\ hole_cards = <<>> /\ community = <<>>
       \/ /\ fn = "best_five_card_hand"
          /\ card_list \in InputCardLists
          /\ hand = <<>> /\ hole_cards = <<>> /\ community = <<>>
       \/ /\ fn = "winning_hands"
          /\ \E d \in GameDecks, k \in CommunitySizes :
                /\ community \in SeqRange(combinations(d, k))
                /\ \E n \in 0..MaxPlayers :
                      hole_cards \in HoleDeals(Without(d, community), n)
          /\ hand = <<>> /\ card_list = <<>>

ValueHand ==
    /\ fn = "value_hand" /\ ret = NoCall
    /\ ret' = value_hand(hand)
    /\ UNCHANGED <<fn, hand, card_list, hole_cards, community, cardVars>>

BestFiveCardHand ==
    /\ fn = "best_five_card_hand" /\ ret = NoCall
    /\ ret' = best_five_card_hand(card_list)
    /\ UNCHANGED <<fn, hand, card_list, hole_cards, community, cardVars>>

WinningHands ==
    /\ fn = "winning_hands" /\ ret = NoCall
    /\ ret' = winning_hands(hole_cards, community)
    /\ UNCHANGED <<fn, hand, card_list, hole_cards, community, cardVars>>

NoCallInit ==
    /\ fn = "none" /\ ret = NoCall
    /\ hand = <<>> /\ card_list = <<>> /\ hole_cards = <<>> /\ community = <<>>

\* The scorer, the selector and the resolver, one call at a time.
Init == CallInit /\ CardInit
Next == ValueHand \/ BestFiveCardHand \/ WinningHands
Spec == Init /\ [][Next]_vars

\* No call of the scorer under observation, and an empty pool.
InitCard == NoCallInit /\ CardInit

\* Card construction with members of Suit and Rank.
NextCard ==
    \E t \in Threads : (\E a \in ValidArgs : CardNew(t, a)) \/ CardStep(t)
SpecCard == InitCard /\ [][NextCard]_vars

\* Card construction with any arguments.
NextCardAny ==
    \E t \in Threads :
        (\E a \in ValidArgs \cup InvalidArgs : CardNew(t, a)) \/ CardStep(t)
SpecCardAny == InitCard /\ [][NextCardAny]_vars

(***************************************************************************)
(* The standard poker ranking, stated on the cards of a hand without       *)
(* reference to the scorer: the yardstick the claims are measured against. *)
(***************************************************************************)
Mult(h, r) == Cardinality({i \in 1..Len(h) : h[i].rank = r})
RankSet(h) == {h[i].rank : i \in 1..Len(h)}
RankBag(h) == [r \in Rank |-> Mult(h, r)]
NumWith(h, n) == Cardinality({r \in RankSet(h) : Mult(h, r) = n})
AllOneSuit(h) == \A i, j \in 1..Len(h) : h[i].suit = h[j].suit
IsWheel(h) == RankSet(h) = {ACE, TWO, THREE, FOUR, FIVE}
Consecutive(h) ==
    /\ Cardinality(RankSet(h)) = 5
    /\ \E lo \in Rank : RankSet(h) = lo..(lo + 4)
IsStraightHand(h) == IsWheel(h) \/ Consecutive(h)

\* 0 high card, 1 pair, 2 two pair, 3 three of a kind, 4 straight, 5 flush,
\* 6 full house, 7 four of a kind, 8 straight flush, 9 royal flush.
Category(h) ==
    IF AllOneSuit(h) /\ RankSet(h) = TEN..ACE THEN 9
    ELSE IF AllOneSuit(h) /\ IsStraightHand(h) THEN 8
    ELSE IF NumWith(h, 4) = 1 THEN 7
    ELSE IF NumWith(h, 3) = 1 /\ NumWith(h, 2) = 1 THEN 6
    ELSE IF AllOneSuit(h) THEN 5
    ELSE IF IsStraightHand(h) THEN 4
    ELSE IF NumWith(h, 3) = 1 THEN 3
    ELSE IF NumWith(h, 2) = 2 THEN 2
    ELSE IF NumWith(h, 2) = 1 THEN 1
    ELSE 0

\* The ranks of a hand from most to least significant: larger groups first,
\* higher ranks first among groups of one size; a straight counts by its high
\* card alone, which is FIVE for the wheel.
GroupedRanks(h) ==
    LET rs == RankSet(h)
        Before(a, b) == Mult(h, a) > Mult(h, b) \/ (Mult(h, a) = Mult(h, b) /\ a > b)
    IN  [i \in 1..Cardinality(rs) |->
            CHOOSE r \in rs : Cardinality({q \in rs : Before(q, r)}) = i - 1]
StrengthKey(h) ==
    IF IsStraightHand(h) THEN <<IF IsWheel(h) THEN FIVE ELSE SetMax(RankSet(h))>>
    ELSE GroupedRanks(h)

\* a beats b, for keys of one length.
KeyBeats(a, b) ==
    \E i \in 1..Len(a) : a[i] > b[i] /\ \A j \in 1..(i - 1) : a[j] = b[j]

RECURSIVE Weighted(_, _)
Weighted(key, n) ==
    IF n = 0 THEN 0 ELSE key[n] + 14 * Weighted(key, n - 1)

\* The reference encoding: the tier's base plus the key read as a number in
\* base 14, most significant rank first; the royal flush carries no payload.
RefScore(h) ==
    Category(h) * 1000000
    + (IF Category(h) = 9 THEN 0 ELSE Weighted(StrengthKey(h), Len(StrengthKey(h))))

\* What the scorer makes of every five-card input hand, by category.
Outcomes ==
    {[cat |-> Category(h), key |-> StrengthKey(h), bag |-> RankBag(h),
      score |-> value_hand(h).value] : h \in FiveCardHands}

\* The outcomes of one category, and the scores they span.
OutcomesOf == [c \in 0..9 |-> {o \in Outcomes : o.cat = c}]
ScoresOf == [c \in 0..9 |-> {o.score : o \in OutcomesOf[c]}]

Scored == fn = "value_hand" /\ ret.kind = "value"

\* C1: a hand of a higher category always scores higher than a hand of a
\* lower one: its score lies from its category's base up to, not including,
\* the next category's base (the royal flush exactly on its base), and it
\* exceeds the score of every input hand of a lower category.
C1_CategoryOrder ==
    Scored =>
        LET cat == Category(hand)
        IN  /\ cat * 1000000 <= ret.value
            /\ ret.value < (cat + 1) * 1000000
            /\ cat = 9 => ret.value = 9000000
            /\ \A c \in 0..9 : \A s \in ScoresOf[c] :
                  /\ cat > c => ret.value > s
                  /\ cat < c => ret.value < s
C1_Witness == Scored /\ Category(hand) = 1 /\ RankSet(hand) = {ACE, KING, QUEEN, JACK}

\* C2: within one category the score orders hands by the kicker rules: a
\* higher score exactly when the grouped ranks win at the first difference,
\* an equal score exactly when the two hands hold the same ranks.
C2_KickerOrder ==
    Scored =>
        LET key == StrengthKey(hand)
            bag == RankBag(hand)
        IN  \A o \in OutcomesOf[Category(hand)] :
                /\ ret.value > o.score <=> KeyBeats(key, o.key)
                /\ ret.value = o.score <=> bag = o.bag
C2_Witness ==
    /\ Scored /\ Category(hand) = 2 /\ ~AllOneSuit(hand)
    /\ \E s \in ScoresOf[2] : s > ret.value
    /\ \E s \in ScoresOf[2] : s < ret.value

Permuted(h, p) == [i \in 1..Len(h) |-> h[p[i]]]

\* C3: the score of a five-card hand is the same in every order of its cards.
C3_OrderIndependent ==
    Scored =>
        \A p \in Permutations(1..5) : value_hand(Permuted(hand, p)) = ret
C3_Witness ==
    /\ Scored /\ Category(hand) = 2
    /\ hand[1].rank > hand[5].rank

\* C4: the score is the reference encoding, base 14 over tier bases at
\* multiples of 10^6, and the scenario hands score as listed.
C4_Encoding ==
    Scored =>
        /\ ret.value = RefScore(hand)
        /\ RankSet(hand) = {ACE, NINE, TEN, EIGHT, QUEEN} /\ ~AllOneSuit(hand)
              => ret.value = 572846
        /\ RankSet(hand) = {SIX, SEVEN, EIGHT, NINE, JACK} /\ AllOneSuit(hand)
              => ret.value = 5448944
        /\ Mult(hand, SIX) = 3 /\ Mult(hand, SEVEN) = 2 => ret.value = 6000091
C4_Witness ==
    /\ Scored
    /\ hand = <<CardOf(HEARTS, EIGHT), CardOf(HEARTS, NINE), CardOf(HEARTS, JACK),
                CardOf(HEARTS, SEVEN), CardOf(HEARTS, SIX)>>

ScoredAsStraight ==
    \/ 4000000 <= ret.value /\ ret.value < 5000000
    \/ 8000000 <= ret.value

\* C5: the wheel scores as the five-high straight (4000005, or 8000005 in one
\* suit), below the six-high one; no other hand with an ace and a two is a
\* straight, and only consecutive distinct ranks or the wheel score as one.
C5_Wheel ==
    Scored =>
        /\ IsWheel(hand) => ret.value = (IF AllOneSuit(hand) THEN 8000005 ELSE 4000005)
        /\ RankSet(hand) = TWO..SIX
              => ret.value = (IF AllOneSuit(hand) THEN 8000006 ELSE 4000006)
        /\ {ACE, TWO} \subseteq RankSet(hand) /\ ~IsWheel(hand) => ~ScoredAsStraight
        /\ ScoredAsStraight => IsWheel(hand) \/ Consecutive(hand)
C5_Witness == Scored /\ IsWheel(hand) /\ ~AllOneSuit(hand) /\ ret.value = 4000005

\* The five-card hands that can be chosen from a list of cards, each in the
\* order of the list.
FiveSubsets(cards) == {S \in SUBSET (1..Len(cards)) : Cardinality(S) = 5}
SubHand(cards, S) ==
    [i \in 1..Cardinality(S) |->
        cards[CHOOSE x \in S : Cardinality({y \in S : y < x}) = i - 1]]
BestScore(cards) ==
    SetMax({value_hand(SubHand(cards, S)).value : S \in FiveSubsets(cards)})

TestCardList == SubSeq(BestDeck, 1, 7)

PlayerBest(p) == BestScore(hole_cards[p] \o community)
TopScore == SetMax({PlayerBest(p) : p \in 1..Len(hole_cards)})
TopPlayers == {p \in 1..Len(hole_cards) : PlayerBest(p) = TopScore}

\* The returned entries are exactly the players of the top score, each with
\* its own hole cards.
ExactlyTheWinners ==
    /\ ret.kind = "value"
    /\ Len(ret.value) >= 1
    /\ Len(ret.value) = Cardinality(TopPlayers)
    /\ \A p \in TopPlayers : \E i \in 1..Len(ret.value) :
          ret.value[i].hole_cards = hole_cards[p]
    /\ \A i \in 1..Len(ret.value) :
          /\ ret.value[i].value = TopScore
          /\ \E p \in TopPlayers : ret.value[i].hole_cards = hole_cards[p]

WinnersCall == fn = "winning_hands" /\ ret # NoCall /\ Len(community) = 5

\* C7 as stated: for any sequence of players, at least one entry is returned
\* and the entries are exactly the players of the top score.
C7_AnyPlayers == WinnersCall => ExactlyTheWinners

\* C7 as amended: for any sequence of at least one player, at least one
\* entry is returned and the entries are exactly the players of the top
\* score, each with its own hole cards; all that tie are returned.
C7_Winners == WinnersCall /\ Len(hole_cards) >= 1 => ExactlyTheWinners
C7_Witness ==
    /\ fn = "winning_hands" /\ community = SubSeq(TiesDeck, 1, 5)
    /\ hole_cards = <<SubSeq(TiesDeck, 6, 7), SubSeq(TiesDeck, 8, 9)>>
    /\ ret.kind = "value" /\ Len(ret.value) = 2
    /\ ret.value[1].hole_cards # ret.value[2].hole_cards

\* C8: a call with the wrong number of cards ends in an error, never in a
\* result: value_hand on other than five cards, best_five_card_hand on fewer
\* than five, winning_hands when a player's cards and the community cards
\* are fewer than five together.
C8_WrongCount ==
    ret # NoCall =>
        /\ fn = "value_hand" /\ Len(hand) # 5 => ret.kind = "error"
        /\ fn = "best_five_card_hand" /\ Len(card_list) < 5 => ret.kind = "error"
        /\ fn = "winning_hands"
           /\ (\E p \in 1..Len(hole_cards) : Len(hole_cards[p]) + Len(community) < 5)
              => ret.kind = "error"
C8_Witness ==
    /\ fn = "winning_hands" /\ Len(hole_cards) = 2 /\ Len(community) = 2
    /\ ret.kind = "error"

\* C9 as stated: a Card with a suit or a rank outside the enumerations is
\* rejected: no such card is handed back and no pool entry made for it.
C9_InvalidRejected ==
    /\ \A m \in made : m.suit \in Suit /\ m.rank \in Rank
    /\ \A k \in DOMAIN card_pool : k[1] \in Suit /\ k[2] \in Rank

\* C10: cards made from the four suits and thirteen ranks compare equal
\* exactly when they were made with the same suit and rank, whichever
\* instances the pool handed back; every pool entry holds a card of its
\* key's suit and rank, and the keys are among the 52 pairs.
C10_ValueEquality ==
    /\ \A m \in made : SuitOf(m.obj) = m.suit /\ RankOf(m.obj) = m.rank
    /\ \A m, n \in made :
          CardEq(m.obj, n.obj) <=> (m.suit = n.suit /\ m.rank = n.rank)
    /\ \A k \in DOMAIN card_pool :
          SuitOf(card_pool[k]) = k[1] /\ RankOf(card_pool[k]) = k[2]
    /\ DOMAIN card_pool \subseteq Suit \X Rank
    /\ Cardinality(DOMAIN card_pool) <= 52
C10_Witness ==
    /\ \E m, n \in made : m.obj # n.obj /\ CardEq(m.obj, n.obj)
    /\ \E m, n \in made : ~CardEq(m.obj, n.obj)

====
